---- MODULE Spec2Model ----
(***************************************************************************)
(* Model of SparkSession.createDataFrame and _inferSchemaFromList of       *)
(* python/pyspark/sql/connect/session.py: the client-side conversion of a  *)
(* local collection (pandas frame, numpy array, iterable of records) into  *)
(* an Arrow table plus a schema, handed to LocalRelation.                  *)
(*                                                                         *)
(* The helpers imported from pyspark.sql.types (_infer_schema,             *)
(* _merge_type, _has_nulltype) and LocalDataToArrowConversion.convert are  *)
(* not part of session.py; they are modelled from sections 4.2-4.4 and 7   *)
(* of the design description.                                              *)
(***************************************************************************)
EXTENDS Integers, Sequences, FiniteSets, TLC

(***************************************************************************)
(* Bounds of the model.                                                    *)
(***************************************************************************)
\* most rows (items) of an input collection, rows of a frame or an array
MaxRows == 2
\* most columns of a frame or an array, most elements of a tuple
MaxCols == 2
\* most values (tuple elements, dict values, scalars) of a collection of records
MaxCells == 4

(***************************************************************************)
(* Optional values: <<>> is Python's None, <<x>> is the value x.           *)
(***************************************************************************)
None == <<>>
Some(x) == <<x>>
IsNone(o) == o = <<>>
Get(o) == o[1]

Max(a, b) == IF a >= b THEN a ELSE b
Min(a, b) == IF a <= b THEN a ELSE b

(***************************************************************************)
(* DataType: a closed recursive variant.  k is the variant, w the width of *)
(* an integer or a float, e the element type of an array (a sequence of    *)
(* one type), f the ordered fields of a struct.  "conflict" is the         *)
(* variant a merge of two disagreeing types falls through to.              *)
(***************************************************************************)
Type(k, w, e, f) == [k |-> k, w |-> w, e |-> e, f |-> f]
Atomic(k) == Type(k, 0, <<>>, <<>>)
NullType == Atomic("null")
BooleanType == Atomic("bool")
StringType == Atomic("str")
BinaryType == Atomic("bin")
TimestampType == Atomic("ts")
ConflictType == Atomic("conflict")
IntegerType(w) == Type("int", w, <<>>, <<>>)
FloatType == Type("float", 64, <<>>, <<>>)
ArrayType(el) == Type("array", 0, <<el>>, <<>>)
StructType(fields) == Type("struct", 0, <<>>, fields)
StructField(n, t, nl) == [name |-> n, type |-> t, nullable |-> nl]

IsStructType(t) == t.k = "struct"
FieldNames(fs) == [i \in DOMAIN fs |-> fs[i].name]
FieldNameSet(fs) == {fs[i].name : i \in DOMAIN fs}
FieldIndex(fs, n) == CHOOSE i \in DOMAIN fs : fs[i].name = n

(***************************************************************************)
(* Schema Merger (_merge_type).                                            *)
(***************************************************************************)
RECURSIVE _merge_type(_, _)
\* a struct field of both sides: merge the types; nullable once a null was absorbed
MergeField(g, h) ==
    StructField(g.name, _merge_type(g.type, h.type),
                g.nullable \/ h.nullable \/ g.type.k = "null" \/ h.type.k = "null")
\* union of the field names in first-seen order; a field of one side only is nullable
MergeStructFields(f1, f2) ==
    LET both == [i \in DOMAIN f1 |->
                    IF f1[i].name \in FieldNameSet(f2)
                    THEN MergeField(f1[i], f2[FieldIndex(f2, f1[i].name)])
                    ELSE StructField(f1[i].name, f1[i].type, TRUE)]
        only2 == SelectSeq(f2, LAMBDA h : h.name \notin FieldNameSet(f1))
    IN  both \o [i \in DOMAIN only2 |-> StructField(only2[i].name, only2[i].type, TRUE)]
_merge_type(a, b) ==
    IF a.k = "null" THEN b
    ELSE IF b.k = "null" THEN a
    ELSE IF a.k = "int" /\ b.k = "int" THEN IntegerType(Max(a.w, b.w))
    ELSE IF a.k = "int" /\ b.k = "float" THEN b
    ELSE IF a.k = "float" /\ b.k = "int" THEN a
    ELSE IF a.k = "struct" /\ b.k = "struct" THEN StructType(MergeStructFields(a.f, b.f))
    ELSE IF a.k = "array" /\ b.k = "array" THEN ArrayType(_merge_type(a.e[1], b.e[1]))
    ELSE IF a = b THEN a
    ELSE ConflictType

\* a fold that hands the next type to _merge_type first and the result second
RECURSIVE ReduceFromSwapped(_, _, _)
ReduceFromSwapped(acc, ts, i) ==
    IF i > Len(ts) THEN acc ELSE ReduceFromSwapped(_merge_type(ts[i], acc), ts, i + 1)
\* functools.reduce(_merge_type, types): a left fold, the first type is the seed
RECURSIVE ReduceFrom(_, _, _)
ReduceFrom(acc, ts, i) ==
    IF i > Len(ts) THEN acc ELSE ReduceFrom(_merge_type(acc, ts[i]), ts, i + 1)
\* the schema of the first row alone
ReduceFirst(ts) == ts[1]
Reduce(ts) == ReduceFrom(ts[1], ts, 2)

(***************************************************************************)
(* _has_nulltype: the schema is undetermined when a null type (nothing but *)
(* None was seen) or a conflict is left anywhere in it.                    *)
(***************************************************************************)
RECURSIVE _has_nulltype(_)
_has_nulltype(t) ==
    IF t.k = "struct" THEN \E i \in DOMAIN t.f : _has_nulltype(t.f[i].type)
    ELSE IF t.k = "array" THEN _has_nulltype(t.e[1])
    ELSE t.k \in {"null", "conflict"}

(***************************************************************************)
(* Python values: k is the Python type, v the payload of a scalar, keys    *)
(* the keys of a dict in insertion order, vals the values of a dict or the *)
(* elements of a tuple/list.                                               *)
(***************************************************************************)
PyVal(k, v, keys, vals) == [k |-> k, v |-> v, keys |-> keys, vals |-> vals]
PyNone == PyVal("none", 0, <<>>, <<>>)
PyInt(n) == PyVal("int", n, <<>>, <<>>)
PyFloat(n) == PyVal("float", n, <<>>, <<>>)
PyStr(n) == PyVal("str", n, <<>>, <<>>)
PyBool(n) == PyVal("bool", n, <<>>, <<>>)
PyTuple(vals) == PyVal("tuple", 0, <<>>, vals)
PyDict(keys, vals) == PyVal("dict", 0, keys, vals)

\* the keys a dict may carry, in lexicographic order
KeyOrder == <<"a", "b", "c", "d", "e", "f">>
KeyRank(s) == CHOOSE i \in DOMAIN KeyOrder : KeyOrder[i] = s
\* "_%s" % i
PosNames == <<"_1", "_2", "_3", "_4", "_5", "_6">>
PosName(i) == PosNames[i]

\* dict(sorted(d.items())): the items in ascending key order
RECURSIVE SortedKeyIdx(_, _)
SortedKeyIdx(keys, todo) ==
    IF todo = {} THEN <<>>
    ELSE LET m == CHOOSE i \in todo : \A j \in todo : KeyRank(keys[i]) <= KeyRank(keys[j])
         IN  <<m>> \o SortedKeyIdx(keys, todo \ {m})
SortDict(d) ==
    LET p == SortedKeyIdx(d.keys, DOMAIN d.keys)
    IN  PyDict([i \in DOMAIN p |-> d.keys[p[i]]], [i \in DOMAIN p |-> d.vals[p[i]]])

(***************************************************************************)
(* Schema Inferrer (_infer_schema / _infer_type).                          *)
(***************************************************************************)
\* the narrowest signed width that holds n
IntWidth(n) ==
    IF n < 128 THEN 8 ELSE IF n < 32768 THEN 16 ELSE IF n <= 2147483647 THEN 32 ELSE 64

RECURSIVE _infer_type(_)
\* the element type of a sequence: every element is merged in
\* (infer_array_from_first_element = False)
RECURSIVE InferElems(_, _, _)
InferElems(acc, vals, i) ==
    IF i > Len(vals) THEN acc
    ELSE InferElems(_merge_type(acc, _infer_type(vals[i])), vals, i + 1)
_infer_type(x) ==
    IF x.k = "none" THEN NullType
    ELSE IF x.k = "bool" THEN BooleanType
    ELSE IF x.k = "int" THEN IntegerType(IntWidth(x.v))
    ELSE IF x.k = "float" THEN FloatType
    ELSE IF x.k = "str" THEN StringType
    ELSE IF x.k = "bytes" THEN BinaryType
    ELSE IF x.k = "datetime" THEN TimestampType
    ELSE IF x.k = "dict"
         THEN StructType([i \in DOMAIN x.keys |->
                  LET t == _infer_type(x.vals[i])
                  IN  StructField(x.keys[i], t, t.k = "null")])
    ELSE ArrayType(InferElems(NullType, x.vals, 1))

\* the type of one row: a struct for a dict (its keys, in the row's order) and for
\* a tuple/list (the supplied names, then "_i"), the atomic type for a bare scalar
_infer_schema(row, names) ==
    IF row.k = "dict" THEN _infer_type(row)
    ELSE IF row.k = "tuple"
         THEN StructType([i \in DOMAIN row.vals |->
                  LET t == _infer_type(row.vals[i])
                      n == IF ~IsNone(names) /\ i <= Len(Get(names))
                           THEN Get(names)[i] ELSE PosName(i)
                  IN  StructField(n, t, t.k = "null")])
    ELSE _infer_type(row)

(***************************************************************************)
(* Columnar Materializer (LocalDataToArrowConversion.convert).             *)
(***************************************************************************)
Table(names, rows) == [names |-> names, rows |-> rows]
NumCols(t) == Len(t.names)
NumRows(t) == Len(t.rows)
\* element of a frame or an array, named by its indices
Elem(idx) == PyVal("elem", 0, <<>>, [i \in DOMAIN idx |-> PyInt(idx[i])])

\* the value of row for the j-th field: by name in a mapping, by position in a
\* sequence; None where the row has none
CellOf(row, j, fld) ==
    IF row.k = "dict"
    THEN IF \E i \in DOMAIN row.keys : row.keys[i] = fld.name
         THEN row.vals[CHOOSE i \in DOMAIN row.keys : row.keys[i] = fld.name]
         ELSE PyNone
    ELSE IF j <= Len(row.vals) THEN row.vals[j] ELSE PyNone

\* can the value be stored in a column of type t: None is a null of any type,
\* a number is upcast to a wider numeric type, anything else keeps its type
RECURSIVE Coercible(_, _)
Coercible(x, t) ==
    IF x.k = "none" THEN TRUE
    ELSE IF t.k = "int" THEN x.k = "int" /\ IntWidth(x.v) <= t.w
    ELSE IF t.k = "float" THEN x.k \in {"int", "float"}
    ELSE IF t.k = "array"
         THEN x.k = "tuple" /\ \A i \in DOMAIN x.vals : Coercible(x.vals[i], t.e[1])
    ELSE IF t.k = "struct"
         THEN x.k = "dict" /\ \A j \in DOMAIN t.f : Coercible(CellOf(x, j, t.f[j]), t.f[j].type)
    ELSE x.k = t.k

\* a row the materializer can read (a mapping or a sequence) all of whose cells
\* fit their field
RowConverts(row, st) ==
    /\ row.k \in {"dict", "tuple"}
    /\ \A j \in DOMAIN st.f : Coercible(CellOf(row, j, st.f[j]), st.f[j].type)
Converts(rows, st) == \A r \in DOMAIN rows : RowConverts(rows[r], st)
convert(rows, st) ==
    Table(FieldNames(st.f),
          [r \in DOMAIN rows |-> [j \in DOMAIN st.f |-> CellOf(rows[r], j, st.f[j])]])

(***************************************************************************)
(* The inputs of one createDataFrame call.                                 *)
(***************************************************************************)
\* names of frame columns and of caller-supplied column lists
ColNames == <<"c1", "c2", "c3", "c4", "c5", "c6">>
Prefix(s, n) == [i \in 1..n |-> s[i]]

\* schema argument: form is the Python type of the argument
SchemaArg(form, ty, str, names) == [form |-> form, ty |-> ty, str |-> str, names |-> names]
NoSchema == SchemaArg("none", None, None, None)
\* field types of the explicit structs
StructElemTypes == {StringType, IntegerType(64)}
ExplicitStructs ==
    {StructType([i \in 1..n |-> StructField(KeyOrder[i], t, TRUE)]) :
        n \in 0..(MaxCols + 1), t \in StructElemTypes}
Schemas ==
    {NoSchema}
    \cup {SchemaArg("type", Some(st), None, None) : st \in ExplicitStructs}
    \cup {SchemaArg("type", Some(IntegerType(64)), None, None)}
    \cup {SchemaArg("str", None, Some("a: int"), None)}
    \cup {SchemaArg("names", None, None, Some(Prefix(ColNames, n))) : n \in 0..(MaxCols + 1)}

\* data argument: a pandas frame and a numpy array are given by their shape,
\* a list (Sized) and a generator (not Sized) by their items
DataArg(kind, shape, items) == [kind |-> kind, shape |-> shape, items |-> items]
Scalars == {PyNone, PyInt(1), PyStr(1)}
DictKeys == {"a", "b"}
SeqsUpTo(S, lo, hi) == UNION {[1..n -> S] : n \in lo..hi}
KeySeqs == {ks \in SeqsUpTo(DictKeys, 1, Cardinality(DictKeys)) :
               \A i, j \in DOMAIN ks : i # j => ks[i] # ks[j]}
Items ==
    Scalars
    \cup {PyTuple(vs) : vs \in SeqsUpTo(Scalars, 1, MaxCols)}
    \cup UNION {{PyDict(ks, vs) : vs \in [DOMAIN ks -> Scalars]} : ks \in KeySeqs}
Frames == {DataArg("frame", <<r, c>>, <<>>) : r \in 0..MaxRows, c \in 0..MaxCols}
Arrays ==
    {DataArg("ndarray", <<>>, <<>>)}
    \cup {DataArg("ndarray", <<r>>, <<>>) : r \in 0..MaxRows}
    \cup {DataArg("ndarray", <<r, c>>, <<>>) : r \in 0..MaxRows, c \in 0..MaxCols}
    \cup {DataArg("ndarray", <<r, c, 1>>, <<>>) : r \in 0..MaxRows, c \in 1..MaxCols}
CellsOf(x) == IF x.k \in {"tuple", "dict"} THEN Len(x.vals) ELSE 1
RECURSIVE TotalCells(_)
TotalCells(its) == IF its = <<>> THEN 0 ELSE CellsOf(Head(its)) + TotalCells(Tail(its))
Collections == {its \in SeqsUpTo(Items, 0, MaxRows) : TotalCells(its) <= MaxCells}
\* a generator differs from a list in not being Sized, which shows at the first
\* steps only: one item is enough
Records ==
    {DataArg("list", <<>>, its) : its \in Collections}
    \cup {DataArg("iter", <<>>, its) : its \in {c \in Collections : Len(c) <= 1}}
Inputs == Frames \cup Arrays \cup Records

(***************************************************************************)
(* State of one createDataFrame call.                                      *)
(***************************************************************************)
VARIABLES
    data,              \* argument data
    schema,            \* argument schema
    pc,                \* position in createDataFrame
    _schema,           \* Optional[AtomicType | StructType]
    _schema_str,       \* Optional[str]
    _cols,             \* Optional[List[str]]
    _num_cols,         \* Optional[int]
    _data,             \* list(data), normalized
    _inferred_schema,  \* Optional[StructType]
    _table,            \* Optional[pa.Table]
    result,            \* the returned relation or the raised error
    stages,            \* the steps taken so far, in order
    reduction          \* the per-row types handed to reduce and what it returned

vars == <<data, schema, pc, _schema, _schema_str, _cols, _num_cols, _data,
          _inferred_schema, _table, result, stages, reduction>>
args == <<data, schema, reduction>>
parsed == <<_schema, _schema_str, _num_cols>>

NoResult == [status |-> "none", err |-> "", counts |-> <<>>, form |-> "",
             schema |-> None, names |-> None, table |-> None]
\* raise err; counts are the numbers the message names, in order
Raise(err, counts) == [NoResult EXCEPT !.status = "error", !.err = err, !.counts = counts]
\* DataFrame.withPlan(LocalRelation(table, schema=...)) and .toDF(*names)
Relation(form, sch, names, table) ==
    [NoResult EXCEPT !.status = "ok", !.form = form, !.schema = sch,
                     !.names = names, !.table = table]

NoReduction == [types |-> <<>>, out |-> None]

Init ==
    /\ data \in Inputs
    /\ schema \in Schemas
    /\ reduction = NoReduction
    /\ pc = "start"
    /\ _schema = None
    /\ _schema_str = None
    /\ _cols = None
    /\ _num_cols = None
    /\ _data = <<>>
    /\ _inferred_schema = None
    /\ _table = None
    /\ result = NoResult
    /\ stages = <<>>

Finish(r) ==
    /\ pc' = "done"
    /\ result' = r

\* lines 197-215: the schema argument is split by its form
ParseSchema ==
    /\ pc = "start"
    /\ pc' = "check_empty"
    /\ _schema' = IF schema.form = "type" THEN schema.ty ELSE None
    /\ _schema_str' = IF schema.form = "str" THEN schema.str ELSE None
    /\ _cols' = IF schema.form = "names" THEN schema.names ELSE None
    /\ _num_cols' =
         IF schema.form = "type"
         THEN IF IsStructType(Get(schema.ty)) THEN Some(Len(Get(schema.ty).f)) ELSE Some(1)
         ELSE IF schema.form = "names" THEN Some(Len(Get(schema.names)))
         ELSE None
    /\ stages' = Append(stages, "parse")
    /\ UNCHANGED <<args, _data, _inferred_schema, _table, result>>

\* isinstance(data, Sized): a frame, an array and a list are, a generator is not
IsSized(d) == d.kind \in {"frame", "ndarray", "list"}
\* len(data) raises TypeError for a 0-dimensional array
HasLen(d) == ~(d.kind = "ndarray" /\ Len(d.shape) = 0)
LenOf(d) == IF d.kind \in {"frame", "ndarray"} THEN d.shape[1] ELSE Len(d.items)

EmptyDataset == "ValueError: can not infer schema from empty dataset"
UndeterminedError == "ValueError: Some of types cannot be determined after inferring"
LengthError == "ValueError: Length mismatch"
DimensionError == "ValueError: NumPy array input should be of 1 or 2 dimensions."

\* lines 217-223 on an empty Sized input
CheckEmpty ==
    /\ pc = "check_empty"
    /\ IsSized(data)
    /\ IF ~HasLen(data) THEN Finish(Raise("TypeError", <<>>))
       ELSE /\ LenOf(data) = 0
            /\ IF ~IsNone(_schema)
               THEN Finish(Relation("json", _schema, None, None))
               ELSE IF ~IsNone(_schema_str)
               THEN Finish(Relation("ddl", _schema_str, None, None))
               ELSE Finish(Raise(EmptyDataset, <<>>))
    /\ stages' = Append(stages, "empty")
    /\ UNCHANGED <<args, parsed, _cols, _data, _inferred_schema, _table>>

\* lines 228-290 without the branch of line 261: an array is read as an iterable
AdapterWithoutNumpy(d) == IF d.kind = "frame" THEN "pandas" ELSE "normalize"
\* lines 228, 261, 290: the branch taken for the input's type
AdapterOf(d) ==
    IF d.kind = "frame" THEN "pandas"
    ELSE IF d.kind = "ndarray" THEN "numpy" ELSE "normalize"

\* line 217 is false: the conversion goes on to the adapter of the input's type
Dispatch ==
    /\ pc = "check_empty"
    /\ ~(IsSized(data) /\ (~HasLen(data) \/ LenOf(data) = 0))
    /\ pc' = AdapterOf(data)
    /\ UNCHANGED <<args, parsed, _cols, _data, _inferred_schema, _table, result, stages>>

\* lines 228-259: one Arrow column per (frame column, arrow type) pair of the zip
FromPandas ==
    /\ pc = "pandas"
    /\ LET m == data.shape[2]
           isStruct == schema.form = "type" /\ IsStructType(Get(schema.ty))
           cols == IF schema.form = "none" THEN Some(Prefix(ColNames, m))
                   ELSE IF isStruct THEN Some(FieldNames(Get(schema.ty).f))
                   ELSE _cols
           ntypes == IF isStruct THEN Len(Get(schema.ty).f) ELSE m
           n == Min(m, ntypes)
       IN  IF schema.form = "type" /\ ~isStruct
           THEN /\ Finish(Raise("ValueError: Single data type is not supported with Arrow", <<>>))
                /\ UNCHANGED <<_cols, _table>>
           ELSE /\ _cols' = cols
                /\ _table' = Some(Table(Prefix(ColNames, n),
                                 [r \in 1..data.shape[1] |-> [c \in 1..n |-> Elem(<<r, c>>)]]))
                /\ pc' = "validate"
                /\ UNCHANGED result
    /\ stages' = Append(stages, "pandas")
    /\ UNCHANGED <<args, parsed, _data, _inferred_schema>>

\* lines 265-269 without the single-column case of a 2-D array
NumberedArrayCols(shape) ==
    IF Len(shape) = 1 THEN <<"value">> ELSE [i \in 1..shape[2] |-> PosName(i)]
\* lines 265-269: the column names of an array when the caller gave none
DefaultArrayCols(shape) ==
    IF Len(shape) = 1 \/ shape[2] = 1 THEN <<"value">>
    ELSE [i \in 1..shape[2] |-> PosName(i)]

\* lines 261-288
FromNumpy ==
    /\ pc = "numpy"
    /\ LET ndim == Len(data.shape)
           cols == IF ~IsNone(_cols) THEN Get(_cols) ELSE DefaultArrayCols(data.shape)
       IN  IF ndim \notin {1, 2}
           THEN /\ Finish(Raise(DimensionError, <<>>))
                /\ UNCHANGED <<_cols, _table>>
           ELSE IF ndim = 1
           THEN IF 1 # Len(cols)
                THEN /\ Finish(Raise(LengthError, <<1, Len(cols)>>))
                     /\ _cols' = Some(cols)
                     /\ UNCHANGED _table
                ELSE /\ _table' = Some(Table(cols, [r \in 1..data.shape[1] |-> <<Elem(<<r>>)>>]))
                     /\ _cols' = Some(cols)
                     /\ pc' = "validate"
                     /\ UNCHANGED result
           ELSE IF data.shape[2] # Len(cols)
                THEN /\ Finish(Raise(LengthError, <<data.shape[2], Len(cols)>>))
                     /\ _cols' = Some(cols)
                     /\ UNCHANGED _table
                ELSE /\ _table' = Some(Table(cols,
                              [r \in 1..data.shape[1] |-> [c \in 1..data.shape[2] |-> Elem(<<r, c>>)]]))
                     /\ _cols' = Some(cols)
                     /\ pc' = "validate"
                     /\ UNCHANGED result
    /\ stages' = Append(stages, "numpy")
    /\ UNCHANGED <<args, parsed, _data, _inferred_schema>>

\* isinstance(x, (Row, tuple, list, dict)) or hasattr(x, "__dict__")
IsRecord(x) == x.k \in {"tuple", "dict"}

\* lines 291-303 without the sort of line 296
NormalizedUnsorted(items) ==
    IF items[1].k = "dict" THEN items
    ELSE IF ~IsRecord(items[1]) THEN [i \in DOMAIN items |-> PyTuple(<<items[i]>>)]
    ELSE items
\* lines 291-303: the shape of the first item decides what is done to every item
Normalized(items) ==
    IF items[1].k = "dict" THEN [i \in DOMAIN items |-> SortDict(items[i])]
    ELSE IF ~IsRecord(items[1]) THEN [i \in DOMAIN items |-> PyTuple(<<items[i]>>)]
    ELSE items
Normalize ==
    /\ pc = "normalize"
    /\ IF Len(data.items) = 0
       THEN \* _data[0] of an empty list
            /\ Finish(Raise("IndexError", <<>>))
            /\ UNCHANGED _data
       ELSE IF data.items[1].k = "dict" /\ \E i \in DOMAIN data.items : data.items[i].k # "dict"
       THEN \* d.items() of an item that is no dict
            /\ Finish(Raise("AttributeError", <<>>))
            /\ UNCHANGED _data
       ELSE /\ _data' = Normalized(data.items)
            /\ pc' = "infer"
            /\ UNCHANGED result
    /\ stages' = Append(stages, "normalize")
    /\ UNCHANGED <<args, parsed, _cols, _inferred_schema, _table>>

\* lines 157-186
_inferSchemaFromList(rows, names) ==
    Reduce([i \in DOMAIN rows |-> _infer_schema(rows[i], names)])

\* line 311 without the isinstance test: any explicit type would do
RequiresSchema(s) == IsNone(s)
\* line 311: without an explicit StructType an undetermined schema is an error
RequiresStruct(s) == IsNone(s) \/ ~IsStructType(Get(s))
\* line 316 left out: the undetermined schema is kept
KeepInferred(inferred, s) == inferred
\* line 316: the schema the rows are materialized with once inference gave up
FallbackSchema(inferred, s) == s

\* lines 305-316
Infer ==
    /\ pc = "infer"
    /\ LET inferred == _inferSchemaFromList(_data, _cols)
       IN  IF _has_nulltype(inferred)
           THEN IF RequiresStruct(_schema)
                THEN /\ Finish(Raise(UndeterminedError, <<>>))
                     /\ _inferred_schema' = Some(inferred)
                ELSE /\ _inferred_schema' = FallbackSchema(Some(inferred), _schema)
                     /\ pc' = "convert"
                     /\ UNCHANGED result
           ELSE /\ _inferred_schema' = Some(inferred)
                /\ pc' = "convert"
                /\ UNCHANGED result
    /\ stages' = Append(stages, "infer")
    /\ UNCHANGED <<args, parsed, _cols, _data, _table>>

\* lines 318-323
Convert ==
    /\ pc = "convert"
    /\ IF Converts(_data, Get(_inferred_schema))
       THEN /\ _table' = Some(convert(_data, Get(_inferred_schema)))
            /\ pc' = "validate"
            /\ UNCHANGED result
       ELSE /\ Finish(Raise("CoercionError", <<>>))
            /\ UNCHANGED _table
    /\ stages' = Append(stages, "convert")
    /\ UNCHANGED <<args, parsed, _cols, _data, _inferred_schema>>

\* the check of line 327 written with > for !=
ColumnCountExceeds(n, t) == ~IsNone(n) /\ Get(n) > NumCols(Get(t))
\* line 327
ColumnCountDiffers(n, t) == ~IsNone(n) /\ Get(n) # NumCols(Get(t))

\* lines 325-331
Validate ==
    /\ pc = "validate"
    /\ IF ColumnCountDiffers(_num_cols, _table)
       THEN Finish(Raise(LengthError,
                         <<Get(_num_cols), NumCols(Get(_table))>>))
       ELSE /\ pc' = "emit"
            /\ UNCHANGED result
    /\ stages' = Append(stages, "validate")
    /\ UNCHANGED <<args, parsed, _cols, _data, _inferred_schema, _table>>

\* lines 333-340 with the column names tested before the explicit schema
EmittedNamesFirst(s, sstr, cols, t) ==
    IF ~IsNone(cols) /\ Len(Get(cols)) > 0 THEN Relation("toDF", None, cols, t)
    ELSE IF ~IsNone(s) THEN Relation("json", s, None, t)
    ELSE IF ~IsNone(sstr) THEN Relation("ddl", sstr, None, t)
    ELSE Relation("plain", None, None, t)
\* lines 333-340: the one schema form the relation is returned with
Emitted(s, sstr, cols, t) ==
    IF ~IsNone(s) THEN Relation("json", s, None, t)
    ELSE IF ~IsNone(sstr) THEN Relation("ddl", sstr, None, t)
    ELSE IF ~IsNone(cols) /\ Len(Get(cols)) > 0 THEN Relation("toDF", None, cols, t)
    ELSE Relation("plain", None, None, t)

\* lines 333-340
Emit ==
    /\ pc = "emit"
    /\ Finish(Emitted(_schema, _schema_str, _cols, _table))
    /\ stages' = Append(stages, "emit")
    /\ UNCHANGED <<args, parsed, _cols, _data, _inferred_schema, _table>>

Next ==
    \/ ParseSchema
    \/ CheckEmpty
    \/ Dispatch
    \/ FromPandas
    \/ FromNumpy
    \/ Normalize
    \/ Infer
    \/ Convert
    \/ Validate
    \/ Emit

Spec == Init /\ [][Next]_vars

(***************************************************************************)
(* The merge-reduce of _inferSchemaFromList on its own: the types inferred *)
(* from three rows of one ingestion are reduced to one.                    *)
(***************************************************************************)
AtomicTypes ==
    {NullType, BooleanType, IntegerType(8), IntegerType(16), IntegerType(32),
     IntegerType(64), FloatType, StringType, BinaryType, TimestampType}
ArrayTypes ==
    {ArrayType(t) : t \in {NullType, IntegerType(8), IntegerType(16), FloatType, StringType}}
\* types of the fields of the rows
FieldTypes == {NullType, IntegerType(8), FloatType, StringType, ArrayType(IntegerType(8))}
\* the struct inferred from a row: a field is nullable when its value was None
RowTypes ==
    {StructType(<<>>)}
    \cup UNION {{StructType([i \in DOMAIN ks |-> StructField(ks[i], ts[i], ts[i].k = "null")]) :
                   ts \in [DOMAIN ks -> FieldTypes]} : ks \in KeySeqs}
InferredTypes == AtomicTypes \cup ArrayTypes \cup RowTypes

MergeInit ==
    /\ reduction \in {[types |-> ts, out |-> None] : ts \in [1..3 -> InferredTypes]}
    /\ data = DataArg("list", <<>>, <<>>)
    /\ schema = NoSchema
    /\ pc = "reduce"
    /\ _schema = None
    /\ _schema_str = None
    /\ _cols = None
    /\ _num_cols = None
    /\ _data = <<>>
    /\ _inferred_schema = None
    /\ _table = None
    /\ result = NoResult
    /\ stages = <<>>

\* lines 174-186: reduce(_merge_type, the types of the rows)
ReduceTypes ==
    /\ pc = "reduce"
    /\ pc' = "reduced"
    /\ reduction' = [reduction EXCEPT !.out = Some(Reduce(reduction.types))]
    /\ UNCHANGED <<data, schema, parsed, _cols, _data, _inferred_schema, _table,
                   result, stages>>

MergeNext == ReduceTypes

SpecMerge == MergeInit /\ [][MergeNext]_vars

(***************************************************************************)
(* Properties.                                                             *)
(***************************************************************************)
Done == pc = "done"
Ok == result.status = "ok"
Failed == result.status = "error"
FailedWith(e) == result.status = "error" /\ result.err = e
IsStructArg(sch) == sch.form = "type" /\ IsStructType(Get(sch.ty))
IsArray(d) == d.kind = "ndarray"
NDim(d) == Len(d.shape)

\* an input collection with no element: a frame or an array without rows, a list
\* or a generator without items
IsEmptyInput(d) ==
    IF d.kind \in {"frame", "ndarray"} THEN Len(d.shape) >= 1 /\ d.shape[1] = 0
    ELSE d.items = <<>>

\* C1: every empty input collection fails with no schema, and with an explicit
\* schema (a type or a DDL string) returns a relation without rows that carries
\* exactly that schema.
C1_EmptyInput ==
    (Done /\ IsEmptyInput(data)) =>
        IF schema.form = "type"
        THEN Ok /\ IsNone(result.table) /\ result.form = "json" /\ result.schema = schema.ty
        ELSE IF schema.form = "str"
        THEN Ok /\ IsNone(result.table) /\ result.form = "ddl" /\ result.schema = schema.str
        ELSE Failed

\* the column count the caller declared, if any
DeclaredCount(sch) ==
    IF IsStructArg(sch) THEN Some(Len(Get(sch.ty).f))
    ELSE IF sch.form = "type" THEN Some(1)
    ELSE IF sch.form = "names" THEN Some(Len(Get(sch.names)))
    ELSE None
\* the columns of a 1-D or 2-D array
ArrayColumns(d) == IF NDim(d) = 1 THEN 1 ELSE d.shape[2]
Mismatch ==
    /\ ~IsNone(_table)
    /\ ~IsNone(DeclaredCount(schema))
    /\ Get(DeclaredCount(schema)) # NumCols(Get(_table))

\* C2: a declared column count that differs from the materialized table's fails
\* with the length-mismatch error naming both counts, for a frame, an array and
\* generic records, and never reaches the emit step.
C2_LengthMismatch ==
    /\ (Done /\ Mismatch) =>
          /\ FailedWith(LengthError)
          /\ result.counts = <<Get(DeclaredCount(schema)), NumCols(Get(_table))>>
    /\ (pc = "emit" \/ Ok) => ~Mismatch
    /\ (Done /\ IsArray(data) /\ NDim(data) \in {1, 2} /\ ~IsEmptyInput(data)
          /\ schema.form = "names" /\ Len(Get(schema.names)) # ArrayColumns(data)) =>
          /\ FailedWith(LengthError)
          /\ result.counts = <<ArrayColumns(data), Len(Get(schema.names))>>
\* a 3-field struct against 2 materialized columns
C2_Witness ==
    /\ Done /\ Mismatch /\ IsStructArg(schema)
    /\ FailedWith(LengthError) /\ result.counts = <<3, 2>>

\* C5 as stated: with no column names supplied a 1-D array gets the one column
\* "value" and every 2-D array with N >= 1 columns gets "_1".."_N"; the table has
\* one column per trailing-axis index and one row per leading-axis index.
C5_Claim ==
    (IsArray(data) /\ schema.form # "names" /\ ~IsNone(_table)) =>
        LET t == Get(_table) IN
        /\ NDim(data) = 1 =>
              /\ t.names = <<"value">>
              /\ t.rows = [r \in 1..data.shape[1] |-> <<Elem(<<r>>)>>]
        /\ (NDim(data) = 2 /\ data.shape[2] >= 1) =>
              /\ t.names = [i \in 1..data.shape[2] |-> PosName(i)]
              /\ t.rows = [r \in 1..data.shape[1] |->
                              [c \in 1..data.shape[2] |-> Elem(<<r, c>>)]]
\* C5: as C5_Claim for a 1-D array and for a 2-D array with N >= 2 columns; a 2-D
\* array with one column gets the name "value".
C5_ArrayNames ==
    (IsArray(data) /\ schema.form # "names" /\ ~IsNone(_table)) =>
        LET t == Get(_table) IN
        /\ NDim(data) = 1 =>
              /\ t.names = <<"value">>
              /\ t.rows = [r \in 1..data.shape[1] |-> <<Elem(<<r>>)>>]
        /\ NDim(data) = 2 =>
              /\ data.shape[2] >= 2 => t.names = [i \in 1..data.shape[2] |-> PosName(i)]
              /\ data.shape[2] = 1 => t.names = <<"value">>
              /\ t.rows = [r \in 1..data.shape[1] |->
                              [c \in 1..data.shape[2] |-> Elem(<<r, c>>)]]
C5_Witness ==
    /\ IsArray(data) /\ schema.form = "none" /\ Ok
    /\ data.shape = <<2, 2>> /\ Get(result.table).names = <<"_1", "_2">>
    /\ result.names = Some(<<"_1", "_2">>)

\* C6: an array that is neither 1-D nor 2-D is rejected with an error whatever the
\* schema and the size, a leading axis of length 0 included.
C6_Dimensions ==
    (Done /\ IsArray(data) /\ NDim(data) \notin {1, 2}) => Failed

\* C7: a successful conversion returns one schema form, the explicit schema first:
\* the JSON of a supplied type, else the supplied DDL string, else the relation
\* renamed to the column names (supplied, or defaulted by the frame or array
\* adapter), else the table's own schema.
AdapterNames(d) ==
    IF d.kind = "frame" THEN Prefix(ColNames, d.shape[2])
    ELSE IF d.kind = "ndarray" THEN DefaultArrayCols(d.shape)
    ELSE <<>>
C7_SchemaPrecedence ==
    Ok =>
        IF schema.form = "type"
        THEN result.form = "json" /\ result.schema = schema.ty /\ IsNone(result.names)
        ELSE IF schema.form = "str"
        THEN result.form = "ddl" /\ result.schema = schema.str /\ IsNone(result.names)
        ELSE IF schema.form = "names" /\ Len(Get(schema.names)) > 0
        THEN result.form = "toDF" /\ result.names = schema.names /\ IsNone(result.schema)
        ELSE IF schema.form = "none" /\ Len(AdapterNames(data)) > 0
        THEN result.form = "toDF" /\ result.names = Some(AdapterNames(data))
             /\ IsNone(result.schema)
        ELSE result.form = "plain" /\ IsNone(result.schema) /\ IsNone(result.names)
\* a frame with an explicit struct: the column names are set as well, the type wins
C7_Witness ==
    /\ Ok /\ data.kind = "frame" /\ IsStructArg(schema)
    /\ ~IsNone(_cols) /\ Len(Get(_cols)) > 0 /\ result.form = "json"

\* the steps taken so far
Ran(step) == \E i \in DOMAIN stages : stages[i] = step
\* what the merge-reduce of line 305 returned
Inferred == _inferSchemaFromList(_data, _cols)
RECURSIVE ContainsKind(_, _)
ContainsKind(t, k) ==
    IF t.k = "struct" THEN \E i \in DOMAIN t.f : ContainsKind(t.f[i].type, k)
    ELSE IF t.k = "array" THEN ContainsKind(t.e[1], k)
    ELSE t.k = k
NullLeft == Ran("infer") /\ ContainsKind(Inferred, "null")
ConflictLeft == Ran("infer") /\ ContainsKind(Inferred, "conflict")

\* C3 as stated: when a null type is left in the inferred schema, the conversion
\* succeeds if and only if the caller supplied an explicit struct, which then
\* replaces the inferred schema; otherwise it fails with the descriptive error.
C3_Claim ==
    (Done /\ NullLeft) =>
        /\ Ok <=> IsStructArg(schema)
        /\ IsStructArg(schema) => _inferred_schema = schema.ty
        /\ ~IsStructArg(schema) => FailedWith(UndeterminedError)
\* C3: when a null type is left in the inferred schema, the conversion fails with
\* the descriptive error if and only if the caller supplied no explicit struct
\* (none, a name list, a DDL string, an atomic type); with a struct, the struct
\* replaces the inferred schema for materialization, the table has the struct's
\* columns, a None is stored as a null whatever the field's type, and the
\* conversion succeeds unless a value does not fit its field (CoercionError).
C3_NullNeedsStruct ==
    NullLeft =>
        IF ~IsStructArg(schema) THEN Done /\ FailedWith(UndeterminedError)
        ELSE /\ _inferred_schema = schema.ty
             /\ Done => (Ok \/ FailedWith("CoercionError"))
             /\ ~IsNone(_table) =>
                   /\ Get(_table).names = FieldNames(Get(schema.ty).f)
                   /\ NumRows(Get(_table)) = Len(data.items)
                   /\ \A r \in DOMAIN _data : \A j \in DOMAIN Get(schema.ty).f :
                         (_data[r].k = "tuple" /\ j <= Len(_data[r].vals)
                            /\ _data[r].vals[j] = PyNone)
                         => Get(_table).rows[r][j] = PyNone
\* a row with a None under an explicit struct of strings, returned
C3_Witness ==
    /\ Done /\ NullLeft /\ IsStructArg(schema) /\ Ok
    /\ _data = <<PyTuple(<<PyStr(1), PyNone>>)>>
    /\ Get(result.table).rows = <<<<PyStr(1), PyNone>>>>

\* C8 as stated: a merge conflict does not fail in the merge-reduce; the schema is
\* undetermined, and the conversion succeeds whenever an explicit struct was
\* supplied and fails only when none was.
C8_Claim ==
    (Done /\ ConflictLeft) => (Ok <=> IsStructArg(schema))
\* C8: a merge conflict does not fail in the merge-reduce: the reduce returns a
\* schema marked undetermined and the decision is taken after it.  The conversion
\* fails there if and only if no explicit struct was supplied; with a struct, the
\* struct replaces the inferred schema and the conversion succeeds only if every
\* value fits its field of the struct, and fails with a CoercionError otherwise.
C8_ConflictDeferred ==
    /\ (pc = "infer" /\ ContainsKind(Inferred, "conflict")) => result.status = "none"
    /\ ConflictLeft =>
        /\ _has_nulltype(Inferred)
        /\ IF ~IsStructArg(schema) THEN Done /\ FailedWith(UndeterminedError)
           ELSE /\ _inferred_schema = schema.ty
                /\ Done => IF Converts(_data, Get(schema.ty)) THEN Ok
                           ELSE FailedWith("CoercionError")
\* an integer and a string in one field, and a struct that does not read the field
C8_Witness ==
    /\ Done /\ ConflictLeft /\ IsStructArg(schema) /\ Ok
    /\ \E i, j \in DOMAIN _data :
          /\ _data[i].k = "dict" /\ _data[j].k = "dict"
          /\ CellOf(_data[i], 1, StructField("b", NullType, TRUE)).k = "int"
          /\ CellOf(_data[j], 1, StructField("b", NullType, TRUE)).k = "str"

\* a collection of mappings
AllDicts(d) ==
    /\ d.kind \in {"list", "iter"}
    /\ d.items # <<>>
    /\ \A i \in DOMAIN d.items : d.items[i].k = "dict"
SortedNames(ns) == \A i, j \in DOMAIN ns : i < j => KeyRank(ns[i]) < KeyRank(ns[j])
KeySet(d) == {d.keys[i] : i \in DOMAIN d.keys}
Lookup(d, key) ==
    IF key \in KeySet(d) THEN d.vals[CHOOSE i \in DOMAIN d.keys : d.keys[i] = key]
    ELSE PyNone
\* the keys of the rows in the order they are first seen
RECURSIVE FirstSeen(_, _, _)
FirstSeen(rows, i, acc) ==
    IF i > Len(rows) THEN acc
    ELSE FirstSeen(rows, i + 1,
             acc \o SelectSeq(rows[i].keys,
                              LAMBDA key : \A n \in DOMAIN acc : acc[n] # key))
Aligned ==
    ~IsNone(_table) =>
        \A r \in DOMAIN data.items : \A j \in DOMAIN Get(_table).names :
            Get(_table).rows[r][j] = Lookup(data.items[r], Get(_table).names[j])

RowField(n, t) == StructType(<<StructField(n, t, t.k = "null")>>)
\* the types a field has in the rows that carry it
TypesOfField(ts, n) ==
    {ts[i].f[FieldIndex(ts[i].f, n)].type : i \in {j \in DOMAIN ts : n \in FieldNameSet(ts[j].f)}}
\* the field is None in some rows, of the one type T in the others, and T is met
NoneOrOnly(ts, n, T) ==
    /\ T.k # "null"
    /\ T \in TypesOfField(ts, n)
    /\ TypesOfField(ts, n) \subseteq {T, NullType}

\* C9: merge(Null, T) = merge(T, Null) = T for every atomic and struct type T and
\* the merged field is nullable; so in the left fold over the rows' types a field
\* that is None in some rows and of type T in at least one row, at any position,
\* ends with type T, and a schema all of whose fields are so is not undetermined.
C9_NullAbsorption ==
    /\ \A i \in DOMAIN reduction.types :
          LET T == reduction.types[i]
              l == _merge_type(RowField("a", NullType), RowField("a", T))
              r == _merge_type(RowField("a", T), RowField("a", NullType))
          IN  /\ _merge_type(NullType, T) = T
              /\ _merge_type(T, NullType) = T
              /\ l.f[1].type = T /\ l.f[1].nullable
              /\ r.f[1].type = T /\ r.f[1].nullable
    /\ (~IsNone(reduction.out) /\ \A i \in DOMAIN reduction.types : reduction.types[i] \in RowTypes) =>
          LET ts == reduction.types
              out == Get(reduction.out)
              names == UNION {FieldNameSet(ts[i].f) : i \in DOMAIN ts}
          IN  /\ \A n \in names : \A T \in FieldTypes :
                    NoneOrOnly(ts, n, T) =>
                       /\ n \in FieldNameSet(out.f)
                       /\ out.f[FieldIndex(out.f, n)].type = T
                       /\ NullType \in TypesOfField(ts, n) => out.f[FieldIndex(out.f, n)].nullable
              /\ (\A n \in names : \E T \in FieldTypes : NoneOrOnly(ts, n, T))
                    => ~_has_nulltype(out)
\* None in the first and in the last row, an integer in the middle one
C9_Witness ==
    /\ reduction.types = <<RowField("a", NullType), RowField("a", IntegerType(8)),
                           RowField("a", NullType)>>
    /\ reduction.out = Some(StructType(<<StructField("a", IntegerType(8), TRUE)>>))

\* C10: merge is associative, merge(merge(a,b),c) = merge(a,merge(b,c)), for any
\* three inferred types, so the left fold over the rows returns what any other
\* grouping of the same rows returns.
C10_Associative ==
    LET a == reduction.types[1]
        b == reduction.types[2]
        c == reduction.types[3]
    IN  /\ _merge_type(_merge_type(a, b), c) = _merge_type(a, _merge_type(b, c))
        /\ ~IsNone(reduction.out) => Get(reduction.out) = _merge_type(a, _merge_type(b, c))
\* an integer widened by a float and then in conflict with a string
C10_Witness ==
    /\ reduction.types = <<RowField("a", IntegerType(8)), RowField("a", FloatType),
                           RowField("a", StringType)>>
    /\ reduction.out = Some(StructType(<<StructField("a", ConflictType, FALSE)>>))

(***************************************************************************)
(* Properties of the order of the steps, under Spec.                       *)
(***************************************************************************)
IsPrefix(s, t) == Len(s) <= Len(t) /\ \A i \in DOMAIN s : s[i] = t[i]
IsGeneric(d) == d.kind \in {"list", "iter"}
\* the steps of a conversion by the frame or array adapter, and by the
\* generic-record adapter
AdapterSteps(d) == <<"parse", AdapterOf(d), "validate", "emit">>
RecordSteps == <<"parse", "normalize", "infer", "convert", "validate", "emit">>
\* the steps of the return of lines 217-223
EmptySteps == <<"parse", "empty">>
NoInference == ~Ran("normalize") /\ ~Ran("infer") /\ ~Ran("convert")

\* C11 as stated: for a frame and an array inference and merge never run and the
\* column-count validation always runs after materialization and before the
\* relation is returned; for generic records the order is always normalize,
\* infer/merge, materialize, validate, emit.
C11_Claim ==
    /\ ~IsGeneric(data) =>
          /\ NoInference
          /\ Ok => stages = AdapterSteps(data)
    /\ (IsGeneric(data) /\ Ok) => stages = RecordSteps
\* C11: for a frame and an array inference and merge never run, and for generic
\* records the steps run in the order normalize, infer/merge, materialize,
\* validate, emit; every relation that carries a table was validated after the
\* table was materialized and before it was returned.  The one relation returned
\* without these steps is the schema-only relation of an empty Sized input with
\* an explicit schema.
C11_StepOrder ==
    /\ ~IsGeneric(data) =>
          /\ NoInference
          /\ IsPrefix(stages, AdapterSteps(data)) \/ IsPrefix(stages, EmptySteps)
    /\ IsGeneric(data) => IsPrefix(stages, RecordSteps) \/ IsPrefix(stages, EmptySteps)
    /\ Ran("validate") => ~IsNone(_table)
    /\ Ok =>
          IF IsEmptyInput(data)
          THEN stages = EmptySteps /\ IsNone(result.table)
          ELSE /\ stages = (IF IsGeneric(data) THEN RecordSteps ELSE AdapterSteps(data))
               /\ ~IsNone(result.table)
\* a list of records returned after all five steps
C11_Witness ==
    /\ Ok /\ data.kind = "list" /\ Len(data.items) = 2
    /\ stages = RecordSteps

\* one item normalized by its own shape: a mapping with its keys sorted, a bare
\* scalar as a single-element row, a tuple or list as it is
NormalizedItem(x) ==
    IF x.k = "dict" THEN SortDict(x)
    ELSE IF ~IsRecord(x) THEN PyTuple(<<x>>)
    ELSE x

\* C12: normalization is per item: every item of a generic collection is
\* normalized by its own shape, whatever the shape of the first item or of any
\* other item.
C12_PerItem ==
    (IsGeneric(data) /\ data.items # <<>> /\ Ran("normalize")) =>
        /\ ~Failed \/ Ran("infer")
        /\ _data = [i \in DOMAIN data.items |-> NormalizedItem(data.items[i])]

\* C13: for a frame of m columns and an explicit struct of k fields no column
\* of the frame is dropped: a successful conversion returns a table of exactly m
\* columns, and whenever k differs from m, k < m as well as k > m, the conversion
\* fails with the length-mismatch error.
C13_NoColumnDropped ==
    (Done /\ data.kind = "frame" /\ IsStructArg(schema) /\ ~IsEmptyInput(data)) =>
        LET k == Len(Get(schema.ty).f)
            m == data.shape[2]
        IN  /\ Ok => NumCols(Get(result.table)) = m
            /\ k # m => FailedWith(LengthError)

====
